---- MODULE Spec2Model ----
(***************************************************************************)
(* Browser-side state machines of projectwise_quart:                       *)
(*   - the WebSocket room chat connection manager                          *)
(*     (src/projectwise/static/js/main.js, "Form ws chat (WS Room)")       *)
(*   - the MCP status poller (src/projectwise/static/js/ws_room.js,        *)
(*     "MCP Status Polling" and "Aksi MCP")                                *)
(*   - the per-room history log kept in localStorage (main.js, saveHist)   *)
(* Both run on the single event-loop thread of the page: every action      *)
(* below is one run of an event handler (or of the part of an async        *)
(* handler between two awaits).                                            *)
(***************************************************************************)
EXTENDS Integers, Sequences, FiniteSets, TLC

VARIABLES
  \* ---- connection manager (main.js 906-1149)
  ws,               \* module variable ws: 0 = null, else the slot of the socket
  sock,             \* the WebSocket objects that exist, by slot
  roomId, userId,   \* wsState.roomId / wsState.userId (<<>> = null)
  reconnectAttempt, \* wsState.reconnectAttempt
  autoReconnect,    \* wsState.autoReconnect
  reconnectTimer,   \* wsState.reconnectTimer: 0 = no timeout pending, else its delay in ms
  roomField, userField, autoBox,  \* #ws-room-id, #ws-user-id, #ws-auto-reconnect
  uiConnected,      \* what setUIConnected last rendered
  stored,           \* localStorage ws_room_id / ws_user_id / ws_auto_reconnect
  leaveWaits,       \* leave handlers suspended in "await delay(150)"
  out,              \* what the handler that ran last put into the message view, in order
  sent,             \* the frames that handler sent on the socket, in order
  evt,              \* the event data that handler received (inbound frame, submitted text)
  \* ---- history variables of the connection manager
  lastOp,           \* the handler that ran last
  schedAttempt,     \* reconnectAttempt when the pending timeout was scheduled (-1: none)
  explicitLeft,     \* Leave was clicked and Join has not been clicked since
  toggledSinceLeave \* the auto-reconnect box was changed by the user since that Leave

wsVars == <<ws, sock, roomId, userId, reconnectAttempt, autoReconnect, reconnectTimer,
            roomField, userField, autoBox, uiConnected, stored, leaveWaits,
            out, sent, evt,
            lastOp, schedAttempt, explicitLeft, toggledSinceLeave>>

VARIABLES
  \* ---- status poller (ws_room.js 295-417, 583-590)
  lastState,        \* __MCP_LAST_STATE: "null" or the status of the last successful poll
  errCooldownUntil, \* __MCP_ERR_COOLDOWN_UNTIL (ms)
  pollTimer,        \* 0 = no interval timer, else the period (ms) it was created with
  timers,           \* the interval timers created by setInterval and not cleared
  pollMs,           \* pollMs
  isRefreshing,     \* isRefreshing
  fetches,          \* GET /mcp/status requests in flight
  badge,            \* the status setMCPStatus last rendered
  hidden,           \* document.hidden
  cmds,             \* POST /mcp/<command> requests in flight, by command
  now,              \* Date.now() (ms since the page loaded)
  \* ---- history variables of the poller
  pOp,              \* the poller handler that ran last
  startedFetch,     \* that handler issued a status fetch
  toasts,           \* the notifications that handler emitted
  prevState,        \* lastState before that handler ran
  errGap,           \* ms between the last two poll-failure notifications (-1: fewer than two)
  lastErrToast,     \* time of the last poll-failure notification (-1: none)
  failRun,          \* [n, start, toasts] of the current run of consecutive failed polls
  logging,          \* whether statusLog is kept in this run
  statusLog,        \* outcomes of the polls completed since the page loaded
  transToasts       \* connected/disconnected notifications emitted so far

pollVars == <<lastState, errCooldownUntil, pollTimer, timers, pollMs, isRefreshing, fetches, badge,
              hidden, cmds, now, pOp, startedFetch, toasts, prevState, errGap, lastErrToast,
              failRun, logging, statusLog, transToasts>>

VARIABLES
  \* ---- the history log of a room (main.js 929-937)
  arr,              \* the array stored under ws_hist_<roomId>, oldest entry first
  stamp,            \* the ts of the entry saved last (Date.now(), counted in saves)
  saves,            \* saveHist calls since the page loaded
  histOn,           \* whether hist is kept in this run
  hist              \* the entries wsAppend stored since the page loaded, oldest first

histVars == <<arr, stamp, saves, histOn, hist>>

VARIABLES
  \* ---- chat submission to the backend (ws_room.js 507-573)
  chats,            \* onUISubmit handlers waiting for the backend's answer
  toastCooldown     \* window.__TOAST_COOLDOWN__ (ms)

chatVars == <<chats, toastCooldown>>

VARIABLES
  \* ---- the room client of ws_room.js (lines 1-155)
  roomWs,           \* ws of that client: 0 = null, else the slot of the WebSocket it refers to
  roomSock,         \* the WebSockets connect() created, by slot: their readyState
  btnConnectOff,    \* btnConnect.disabled
  btnDisconnectOff, \* btnDisconnect.disabled
  rOp,              \* the handler of the room client that ran last
  rOn               \* the slot of the socket that handler sent on or closed (0: none)

roomVars == <<roomWs, roomSock, btnConnectOff, btnDisconnectOff, rOp, rOn>>

vars == <<wsVars, pollVars, histVars, chatVars, roomVars>>

\* ------------------------------------------------------------------ bounds
MaxSockets == 2      \* WebSocket objects alive at once (current one + one still closing)
MaxAttempt == 6      \* cap of reconnectAttempt (the code has none)
MaxLeaveWaits == 1   \* leave handlers suspended at once
MaxFetches == 2      \* status fetches in flight at once (the guard keeps it at one)
MaxCmds == 1         \* command requests in flight at once
MaxTicks == 4        \* clock ticks
MaxLog == 3          \* polls recorded in statusLog
MaxRun == 5          \* consecutive failed polls counted
MaxTimers == 2       \* interval timers active at once (the guard keeps it at one)
MaxSaves == 4        \* saveHist calls in a run
MaxChats == 1        \* chat submissions in flight at once
MaxHist == 6         \* entries stored in a run that keeps hist

\* ------------------------------------------------------------------ helpers
Min(a, b) == IF a < b THEN a ELSE b

RECURSIVE Pow2(_)
Pow2(n) == IF n = 0 THEN 1 ELSE 2 * Pow2(n - 1)

\* text inputs are sequences of characters
RECURSIVE TrimLeft(_)
TrimLeft(s) == IF s # <<>> /\ Head(s) = " " THEN TrimLeft(Tail(s)) ELSE s

RECURSIVE TrimRight(_)
TrimRight(s) ==
  IF s # <<>> /\ s[Len(s)] = " " THEN TrimRight(SubSeq(s, 1, Len(s) - 1)) ELSE s

\* val(id): the field's value, trimmed
valRaw(s) == s
val(s) == TrimRight(TrimLeft(s))

RoomInputs == { <<>>, <<" ">>, <<"r">>, <<"s">> }
UserInputs == { <<>>, <<"u">> }

Slots == 1..MaxSockets
FreeSock == [rs |-> "free", h |-> FALSE, by |-> "none"]

\* a socket that is open or connecting with its event handlers attached
Live(s) == sock[s].h /\ sock[s].rs \in {"connecting", "open"}

\* WebSocket.close(): CONNECTING/OPEN -> CLOSING, otherwise nothing
closed(rec) == IF rec.rs \in {"connecting", "open"} THEN [rec EXCEPT !.rs = "closing"] ELSE rec

\* scheduleReconnect's delay
BackoffNoCap(n) == 1000 * Pow2(n)
BackoffDelay(n) == Min(30000, 1000 * Pow2(n))

\* ------------------------------------------------------------------ connection manager
\* saveLast(): what localStorage holds after it ran with the given wsState values
saveLast(r, u, a) == [room |-> r, user |-> u, auto |-> a]

\* wsAppend({type, from, content, self}): the bubble appendMessage renders, which
\* saveHist stores under the key of wsState.roomId.  Texts and names are sequences of
\* characters or words; an absent from is <<>>.
wsAppend(type, from, content, self) ==
  [role |-> IF type = <<"message">> THEN (IF self THEN "user" ELSE "peer") ELSE "assistant",
   text |-> content,
   who  |-> IF type # <<"message">> THEN <<"Assistant">>
            ELSE IF from # <<>> THEN from
            ELSE IF self THEN <<"You">> ELSE <<"User">>,
   key  |-> roomId]

\* renderHist(r): the stored log of room r is replayed into the view, nothing is stored
renderHist(r) == [role |-> "replay", text |-> <<>>, who |-> <<>>, key |-> r]

HistCap == 500

\* saveHist, lines 932-935: the array after the entry was pushed
saveHistNoCap(a, e) == Append(a, e)
saveHist(a, e) == LET b == Append(a, e) IN IF Len(b) > HistCap THEN Tail(b) ELSE b

\* the bubbles o of a handler as wsAppend stored them one by one; what renderHist
\* replays goes to appendMessage directly and is not stored again
RECURSIVE saveAll(_, _)
saveAll(a, o) ==
  IF o = <<>> THEN a
  ELSE saveAll(IF Head(o).role = "replay" THEN a ELSE saveHist(a, Head(o)), Tail(o))

\* the stored entries after a handler of the connection manager ran
Stored ==
  /\ hist' = IF histOn THEN saveAll(hist, out') ELSE hist
  /\ Len(hist') <= MaxHist
  /\ UNCHANGED <<arr, stamp, saves, histOn>>

\* an event's data: raw is the text received, valid whether JSON.parse accepts it,
\* truthy whether the value (the parsed one, the text itself when it does not parse)
\* is truthy, type/from/content/items its properties (<<>> = absent), json what
\* JSON.stringify gives for the value
Data(kind, raw, valid, truthy, type, from, content, items, json) ==
  [kind |-> kind, raw |-> raw, valid |-> valid, truthy |-> truthy, type |-> type,
   from |-> from, content |-> content, items |-> items, json |-> json]

NoEvt == Data("none", <<>>, FALSE, FALSE, <<>>, <<>>, <<>>, <<>>, <<>>)

\* a handler that renders nothing, sends nothing and got no data
Quiet == out' = <<>> /\ sent' = <<>> /\ evt' = NoEvt

\* setUIConnected(connected): the Join button is shown iff not connected, the Leave
\* button, the input and the Send button are enabled iff connected
setUIConnected(connected) == uiConnected' = connected

\* scheduleReconnect(): with auto-reconnect off nothing happens; otherwise the pending
\* timeout is replaced by one of BackoffDelay(reconnectAttempt) ms.  att is the value
\* of wsState.reconnectAttempt when it runs.
scheduleReconnect(att) ==
  IF ~autoReconnect
    THEN UNCHANGED <<reconnectTimer, schedAttempt>>
    ELSE /\ reconnectTimer' = BackoffDelay(att)
         /\ schedAttempt' = att

\* connectWS, lines 1035-1040: the existing socket loses its handlers and is closed.
\* A detached socket that is already CLOSED can deliver nothing more and is dropped.
teardownNone(w) == sock
teardown(w) ==
  IF w = 0 THEN sock
  ELSE [sock EXCEPT ![w] = IF sock[w].rs = "closed" THEN FreeSock
                           ELSE [closed(sock[w]) EXCEPT !.h = FALSE]]

\* connectWS(): by is "join" or "timer"
connectWS(by) ==
  LET r == val(roomField)
      u == val(userField)
  IN IF r = <<>> \/ u = <<>>
       THEN \* "Room ID dan User ID wajib diisi."
            /\ out' = <<wsAppend(<<"system">>, <<>>, <<"Room ID dan User ID wajib diisi.">>, FALSE)>>
            /\ sent' = <<>> /\ evt' = NoEvt
            /\ UNCHANGED <<ws, sock, roomId, userId, autoReconnect, stored>>
            /\ lastOp' = IF by = "join" THEN "joinInvalid" ELSE "timerInvalid"
       ELSE LET old == teardown(ws)
                free == { s \in Slots : old[s].rs = "free" }
            IN /\ free # {}
               /\ LET n == CHOOSE s \in free : \A t \in free : s <= t
                  IN /\ sock' = [old EXCEPT ![n] = [rs |-> "connecting", h |-> TRUE, by |-> by]]
                     /\ ws' = n
               /\ roomId' = r
               /\ userId' = u
               /\ autoReconnect' = autoBox
               /\ stored' = saveLast(r, u, autoBox)
               /\ Quiet
               /\ lastOp' = IF by = "join" THEN "join" ELSE "timerConnect"

\* disconnectWS(): w is the socket ws refers to, given as it is when disconnectWS runs
disconnectWS(cur) ==
  /\ sock' = IF ws # 0 /\ cur[ws].rs = "open" THEN [cur EXCEPT ![ws] = closed(cur[ws])] ELSE cur
  /\ setUIConnected(FALSE)
  /\ reconnectTimer' = 0
  /\ schedAttempt' = -1

\* click on #join-room-btn (shown only while the UI is not connected)
JoinClick ==
  /\ UNCHANGED <<pollVars, chatVars, roomVars>>
  /\ ~uiConnected
  /\ connectWS("join")
  /\ explicitLeft' = FALSE
  /\ toggledSinceLeave' = FALSE
  /\ UNCHANGED <<reconnectAttempt, reconnectTimer, schedAttempt, roomField, userField,
                 autoBox, uiConnected, leaveWaits>>
  /\ Stored

\* the timeout set by scheduleReconnect fires
ReconnectTimerFires ==
  /\ UNCHANGED <<pollVars, chatVars, roomVars>>
  /\ reconnectTimer # 0
  /\ reconnectAttempt < MaxAttempt
  /\ reconnectTimer' = 0
  /\ schedAttempt' = -1
  /\ reconnectAttempt' = reconnectAttempt + 1
  /\ connectWS("timer")
  /\ UNCHANGED <<roomField, userField, autoBox, uiConnected, leaveWaits,
                 explicitLeft, toggledSinceLeave>>
  /\ Stored

\* ws.onopen: the value reconnectAttempt takes
attemptKept == reconnectAttempt
attemptAfterOpen == 0

\* the socket in slot s opens; its onopen handler runs if still attached
OnOpen(s) ==
  /\ UNCHANGED <<pollVars, chatVars, roomVars>>
  /\ sock[s].rs = "connecting"
  /\ sock' = [sock EXCEPT ![s].rs = "open"]
  /\ IF sock[s].h
       THEN /\ reconnectAttempt' = attemptAfterOpen
            /\ setUIConnected(TRUE)
            /\ out' = <<renderHist(roomId),
                        wsAppend(<<"system">>, <<>>,
                                 <<"Connected to room ">> \o roomId \o <<" as ">> \o userId,
                                 FALSE)>>
            /\ sent' = <<>> /\ evt' = NoEvt
            /\ lastOp' = "open"
       ELSE /\ UNCHANGED <<reconnectAttempt, uiConnected>>
            /\ Quiet
            /\ lastOp' = "detachedOpen"
  /\ UNCHANGED <<ws, roomId, userId, autoReconnect, reconnectTimer, roomField, userField,
                 autoBox, stored, leaveWaits, schedAttempt, explicitLeft, toggledSinceLeave>>
  /\ Stored

\* ws.onerror: an error event on a socket whose handlers are attached
OnError(s) ==
  /\ UNCHANGED <<pollVars, chatVars, roomVars>>
  /\ Live(s)
  /\ out' = <<wsAppend(<<"system">>, <<>>, <<"WebSocket error">>, FALSE)>>
  /\ sent' = <<>> /\ evt' = NoEvt
  /\ lastOp' = "error"
  /\ UNCHANGED <<ws, sock, roomId, userId, reconnectAttempt, autoReconnect, reconnectTimer,
                 roomField, userField, autoBox, uiConnected, stored, leaveWaits,
                 schedAttempt, explicitLeft, toggledSinceLeave>>
  /\ Stored

\* the server starts the closing handshake: readyState becomes CLOSING, no event yet
ServerCloseStart(s) ==
  /\ UNCHANGED <<pollVars, chatVars, roomVars>>
  /\ sock[s].rs = "open"
  /\ sock' = [sock EXCEPT ![s].rs = "closing"]
  /\ Quiet
  /\ lastOp' = "closeStart"
  /\ UNCHANGED <<ws, roomId, userId, reconnectAttempt, autoReconnect, reconnectTimer,
                 roomField, userField, autoBox, uiConnected, stored, leaveWaits,
                 schedAttempt, explicitLeft, toggledSinceLeave>>
  /\ Stored

\* the close event of the socket in slot s (connection failed, lost or closed):
\* ws.onclose runs if still attached; a detached socket is gone
OnClose(s) ==
  /\ UNCHANGED <<pollVars, chatVars, roomVars>>
  /\ sock[s].rs \in {"connecting", "open", "closing"}
  /\ Quiet
  /\ IF sock[s].h
       THEN /\ sock' = [sock EXCEPT ![s].rs = "closed"]
            /\ setUIConnected(FALSE)
            /\ scheduleReconnect(reconnectAttempt)
            /\ lastOp' = "close"
       ELSE /\ sock' = [sock EXCEPT ![s] = FreeSock]
            /\ UNCHANGED <<uiConnected, reconnectTimer, schedAttempt>>
            /\ lastOp' = "detachedClose"
  /\ UNCHANGED <<ws, roomId, userId, reconnectAttempt, autoReconnect, roomField, userField,
                 autoBox, stored, leaveWaits, explicitLeft, toggledSinceLeave>>
  /\ Stored

\* click on #leave-room-btn (enabled only while the UI is connected), up to the await
\* when the socket is OPEN, to the end otherwise
LeaveClick ==
  /\ UNCHANGED <<pollVars, chatVars, roomVars>>
  /\ uiConnected
  /\ autoReconnect' = FALSE
  /\ autoBox' = FALSE
  /\ explicitLeft' = TRUE
  /\ toggledSinceLeave' = FALSE
  /\ IF ws # 0 /\ sock[ws].rs = "open"
       THEN /\ leaveWaits < MaxLeaveWaits
            /\ leaveWaits' = leaveWaits + 1
            /\ sent' = <<[key |-> "type", value |-> <<"leave">>]>>
            /\ out' = <<wsAppend(<<"system">>, <<>>,
                                 (IF userId # <<>> THEN userId
                                  ELSE IF userField # <<>> THEN userField ELSE <<"You">>)
                                   \o <<" left">>,
                                 FALSE)>>
            /\ evt' = NoEvt
            /\ lastOp' = "leaveClick"
            /\ UNCHANGED <<sock, uiConnected, reconnectTimer, schedAttempt>>
       ELSE /\ disconnectWS(sock)
            /\ Quiet
            /\ lastOp' = "leaveDone"
            /\ UNCHANGED leaveWaits
  /\ UNCHANGED <<ws, roomId, userId, reconnectAttempt, roomField, userField, stored>>
  /\ Stored

\* the leave handler after "await delay(150)": ws.close(1000, "leave"), disconnectWS()
LeaveResume ==
  /\ UNCHANGED <<pollVars, chatVars, roomVars>>
  /\ leaveWaits > 0
  /\ leaveWaits' = leaveWaits - 1
  /\ disconnectWS([sock EXCEPT ![ws] = closed(sock[ws])])
  /\ Quiet
  /\ lastOp' = "leaveDone"
  /\ UNCHANGED <<ws, roomId, userId, reconnectAttempt, autoReconnect, roomField, userField,
                 autoBox, stored, explicitLeft, toggledSinceLeave>>
  /\ Stored

\* change event of #ws-auto-reconnect
AutoReconnectChange ==
  /\ UNCHANGED <<pollVars, chatVars, roomVars>>
  /\ autoBox' = ~autoBox
  /\ autoReconnect' = ~autoBox
  /\ stored' = saveLast(roomId, userId, ~autoBox)
  /\ toggledSinceLeave' = explicitLeft
  /\ Quiet
  /\ lastOp' = "toggle"
  /\ UNCHANGED <<ws, sock, roomId, userId, reconnectAttempt, reconnectTimer, roomField,
                 userField, uiConnected, leaveWaits, schedAttempt, explicitLeft>>
  /\ Stored

\* the user edits #ws-room-id or #ws-user-id
EditRoom(v) ==
  /\ UNCHANGED <<pollVars, chatVars, roomVars>>
  /\ v # roomField
  /\ roomField' = v
  /\ Quiet
  /\ lastOp' = "edit"
  /\ UNCHANGED <<ws, sock, roomId, userId, reconnectAttempt, autoReconnect, reconnectTimer,
                 userField, autoBox, uiConnected, stored, leaveWaits,
                 schedAttempt, explicitLeft, toggledSinceLeave>>
  /\ Stored

EditUser(v) ==
  /\ UNCHANGED <<pollVars, chatVars, roomVars>>
  /\ v # userField
  /\ userField' = v
  /\ Quiet
  /\ lastOp' = "edit"
  /\ UNCHANGED <<ws, sock, roomId, userId, reconnectAttempt, autoReconnect, reconnectTimer,
                 roomField, autoBox, uiConnected, stored, leaveWaits,
                 schedAttempt, explicitLeft, toggledSinceLeave>>
  /\ Stored

\* the frames a server can deliver
InFrames ==
  { Data("frame", <<"oops">>, FALSE, TRUE, <<>>, <<>>, <<>>, <<>>, <<"\"oops\"">>),
    Data("frame", <<"null">>, TRUE, FALSE, <<>>, <<>>, <<>>, <<>>, <<"null">>),
    Data("frame", <<"{message from u}">>, TRUE, TRUE, <<"message">>, <<"u">>, <<"hi">>, <<>>,
         <<"{message from u}">>),
    Data("frame", <<"{message from v}">>, TRUE, TRUE, <<"message">>, <<"v">>, <<"yo">>, <<>>,
         <<"{message from v}">>),
    Data("frame", <<"{history}">>, TRUE, TRUE, <<"history">>, <<>>, <<>>,
         << [type |-> <<"message">>, from |-> <<"u">>, content |-> <<"hi">>],
            [type |-> <<"message">>, from |-> <<"v">>, content |-> <<"yo">>],
            [type |-> <<"system">>, from |-> <<>>, content |-> <<"v joined">>] >>,
         <<"{history}">>),
    Data("frame", <<"{system}">>, TRUE, TRUE, <<"system">>, <<>>, <<"v joined">>, <<>>,
         <<"{system}">>),
    Data("frame", <<"{ ping }">>, TRUE, TRUE, <<"ping">>, <<>>, <<>>, <<>>, <<"{ping}">>) }

\* parseJSONSafe(s): the parsed value, or null (a value that is not truthy) when
\* JSON.parse throws
parseReturnsRaw(d) == d
parseJSONSafe(d) == IF d.valid THEN d ELSE [d EXCEPT !.truthy = FALSE]

\* ws.onmessage, lines 1059-1067: whether a frame of type message is the local user's
isSelfNever(from) == FALSE
isSelf(from) == from = userId

\* ws.onmessage: what the handler renders for the frame d
onmessage(d) ==
  LET data == parseJSONSafe(d)
  IN IF ~data.truthy
       THEN <<wsAppend(<<"system">>, <<>>, d.raw, FALSE)>>
     ELSE IF data.type = <<"history">>
       THEN [i \in 1..Len(data.items) |->
               wsAppend(data.items[i].type, data.items[i].from, data.items[i].content,
                        data.items[i].type = <<"message">> /\ isSelf(data.items[i].from))]
     ELSE IF data.type = <<"message">>
       THEN IF isSelf(data.from) THEN <<>>
            ELSE <<wsAppend(<<"message">>, data.from, data.content, FALSE)>>
     ELSE <<wsAppend(<<"system">>, <<>>,
                     IF data.content # <<>> THEN data.content ELSE data.json, FALSE)>>

\* a frame arrives on the socket in slot s: the message event fires only while the
\* socket is OPEN, and ws.onmessage runs only if it is still attached
OnMessage(s, d) ==
  /\ UNCHANGED <<pollVars, chatVars, roomVars>>
  /\ sock[s].rs = "open" /\ sock[s].h
  /\ evt' = d
  /\ out' = onmessage(d)
  /\ sent' = <<>>
  /\ lastOp' = "message"
  /\ UNCHANGED <<ws, sock, roomId, userId, reconnectAttempt, autoReconnect, reconnectTimer,
                 roomField, userField, autoBox, uiConnected, stored, leaveWaits,
                 schedAttempt, explicitLeft, toggledSinceLeave>>
  /\ Stored

\* the texts typed into #ws-input
TextInputs == { <<>>, <<" ">>, <<"hi">> }

\* submit handler, line 1136: whether the message can be sent
sendAlways(w) == TRUE
canSend(w) == w # 0 /\ sock[w].rs = "open"

\* submit of #ws-form with t typed into #ws-input (the input and the Send button are
\* enabled only while the UI is connected)
Submit(t) ==
  /\ UNCHANGED <<pollVars, chatVars, roomVars>>
  /\ uiConnected
  /\ evt' = Data("submit", t, FALSE, FALSE, <<>>, <<>>, <<>>, <<>>, <<>>)
  /\ LET text == val(t)
     IN IF text = <<>>
          THEN out' = <<>> /\ sent' = <<>> /\ lastOp' = "submitEmpty"
        ELSE IF ~canSend(ws)
          THEN /\ out' = <<wsAppend(<<"system">>, <<>>, <<"Not connected">>, FALSE)>>
               /\ sent' = <<>>
               /\ lastOp' = "submitOffline"
        ELSE /\ out' = <<wsAppend(<<"message">>, userId, text, TRUE)>>
             /\ sent' = <<[key |-> "message", value |-> text]>>
             /\ lastOp' = "submit"
  /\ UNCHANGED <<ws, sock, roomId, userId, reconnectAttempt, autoReconnect, reconnectTimer,
                 roomField, userField, autoBox, uiConnected, stored, leaveWaits,
                 schedAttempt, explicitLeft, toggledSinceLeave>>
  /\ Stored

\* state after the page loaded: loadLast() filled the form from localStorage
InitWS ==
  /\ ws = 0
  /\ sock = [s \in Slots |-> FreeSock]
  /\ roomId = <<>>
  /\ userId = <<>>
  /\ reconnectAttempt = 0
  /\ autoReconnect = FALSE
  /\ reconnectTimer = 0
  /\ roomField \in {<<>>, <<"r">>}
  /\ userField \in {<<>>, <<"u">>}
  /\ autoBox \in BOOLEAN
  /\ stored = saveLast(roomField, userField, autoBox)
  /\ uiConnected = FALSE
  /\ leaveWaits = 0
  /\ out = <<>> /\ sent = <<>> /\ evt = NoEvt
  /\ lastOp = "init"
  /\ schedAttempt = -1
  /\ explicitLeft = FALSE
  /\ toggledSinceLeave = FALSE

NextWS ==
  \/ JoinClick
  \/ ReconnectTimerFires
  \/ \E s \in Slots : OnOpen(s)
  \/ \E s \in Slots : OnError(s)
  \/ \E s \in Slots : ServerCloseStart(s)
  \/ \E s \in Slots : OnClose(s)
  \/ LeaveClick
  \/ LeaveResume
  \/ AutoReconnectChange
  \/ \E v \in RoomInputs : EditRoom(v)
  \/ \E v \in UserInputs : EditUser(v)


\* ------------------------------------------------------------------ status poller
CooldownMs == 15000
FastMs == 500
NormalMs == 1500
SlowMs == 4000
TickMs == CooldownMs \div 3

Statuses == {"disconnected", "connecting", "connected", "error"}
Commands == {"connect", "disconnect", "reconnect"}

\* the JSON object GET /mcp/status answers with (truthiness of its fields)
Responses == [connecting : BOOLEAN, connected : BOOLEAN, error : BOOLEAN]

mapStatus(s) ==
  IF s.connecting THEN "connecting"
  ELSE IF s.connected THEN "connected"
  ELSE IF s.error THEN "error"
  ELSE "disconnected"

\* refreshStatus, line 325: with the flag set the call returns at once
refreshNeverBlocked(flag) == FALSE
refreshBlocked(flag) == flag

\* refreshStatus() up to its await, called when isRefreshing = flag and n fetches are
\* in flight
refreshStatus(flag, n) ==
  IF refreshBlocked(flag)
    THEN /\ isRefreshing' = flag
         /\ fetches' = n
         /\ startedFetch' = FALSE
    ELSE /\ n < MaxFetches
         /\ isRefreshing' = TRUE
         /\ fetches' = n + 1
         /\ startedFetch' = TRUE

\* startPolling, line 368: a timer is created only when pollTimer holds none
startAlways(t) == TRUE
startIdle(t) == t = 0

\* stopPolling: the timers left of n when pollTimer is t
stopPolling(n, t) == IF t # 0 THEN n - 1 ELSE n

\* the finally block of onConnect / onDisconnect / onReconnect
cmdFinallySkips(flag, n) == isRefreshing' = flag /\ fetches' = n /\ startedFetch' = FALSE
cmdFinally(flag, n) == refreshStatus(flag, n)

\* refreshStatus, lines 335-343: the connected/disconnected notification
transitionAlways(last, nowState) == nowState \in {"connected", "disconnected"}
transitionFromAny(last, nowState) ==
  /\ nowState # last
  /\ \/ nowState = "connected" /\ last # "connected"
     \/ nowState = "disconnected" /\ last # "disconnected"
transitionToast(last, nowState) ==
  /\ last # "null"
  /\ nowState # last
  /\ \/ nowState = "connected" /\ last # "connected"
     \/ nowState = "disconnected" /\ last # "disconnected"

\* refreshStatus, line 353: a poll failure notifies when the cooldown is over
cooldownIgnored(t, until) == TRUE
cooldownOver(t, until) == t >= until

\* refreshStatus, line 348: the interval a successful poll asks for
nextAlwaysNormal(s) == NormalMs
nextInterval(s) == IF s.connecting THEN FastMs ELSE NormalMs

\* refreshStatus, lines 345-346: a successful poll records its status
successKeeps(last, nowState) == last
successRecords(last, nowState) == nowState

\* refreshStatus, catch branch: __MCP_LAST_STATE is not assigned
failureRecorded(last) == "error"
failureKeeps(last) == last

\* the history of completed polls, kept while logging
logged(outcome, toast) ==
  IF logging /\ Len(statusLog) < MaxLog
    THEN /\ statusLog' = Append(statusLog, outcome)
         /\ transToasts' = transToasts + (IF toast THEN 1 ELSE 0)
    ELSE UNCHANGED <<statusLog, transToasts>>

NoRun == [n |-> 0, start |-> 0, toasts |-> 0]

\* the setInterval timer calls refreshStatus
PollTick ==
  /\ UNCHANGED <<wsVars, histVars, chatVars, roomVars>>
  /\ timers > 0
  /\ refreshStatus(isRefreshing, fetches)
  /\ pOp' = "tick"
  /\ toasts' = {}
  /\ prevState' = lastState
  /\ UNCHANGED <<lastState, errCooldownUntil, pollTimer, timers, pollMs, badge, hidden, cmds, now,
                 errGap, lastErrToast, failRun, logging, statusLog, transToasts>>

\* the status fetch resolves with response s: refreshStatus after its await, try branch
FetchOk(s) ==
  /\ UNCHANGED <<wsVars, histVars, chatVars, roomVars>>
  /\ fetches > 0
  /\ LET nowState == mapStatus(s)
         toast == transitionToast(lastState, nowState)
         next == nextInterval(s)
         restart == next # pollMs
         nested == restart /\ ~refreshBlocked(isRefreshing)
     IN /\ badge' = nowState
        /\ toasts' = IF toast THEN {"transition"} ELSE {}
        /\ lastState' = successRecords(lastState, nowState)
        /\ pollMs' = next
        /\ pollTimer' = IF restart THEN next ELSE pollTimer
        /\ timers' = IF restart THEN stopPolling(timers, pollTimer) + 1 ELSE timers
        /\ fetches' = (fetches - 1) + (IF nested THEN 1 ELSE 0)
        /\ startedFetch' = nested
        /\ isRefreshing' = FALSE
        /\ logged(nowState, toast)
  /\ pOp' = "fetchOk"
  /\ prevState' = lastState
  /\ failRun' = NoRun
  /\ UNCHANGED <<errCooldownUntil, hidden, cmds, now, errGap, lastErrToast, logging>>

\* the status fetch fails (network error or non-2xx): refreshStatus, catch branch
FetchFail ==
  /\ UNCHANGED <<wsVars, histVars, chatVars, roomVars>>
  /\ fetches > 0
  /\ LET toast == cooldownOver(now, errCooldownUntil)
         restart == pollMs # SlowMs
         nested == restart /\ ~refreshBlocked(isRefreshing)
     IN /\ toasts' = IF toast THEN {"pollError"} ELSE {}
        /\ errCooldownUntil' = IF toast THEN now + CooldownMs ELSE errCooldownUntil
        /\ errGap' = IF toast /\ lastErrToast # -1 THEN now - lastErrToast ELSE errGap
        /\ lastErrToast' = IF toast THEN now ELSE lastErrToast
        /\ failRun' = [n |-> Min(failRun.n + 1, MaxRun),
                       start |-> IF failRun.n = 0 THEN now ELSE failRun.start,
                       toasts |-> Min(failRun.toasts + (IF toast THEN 1 ELSE 0), 2)]
        /\ badge' = "error"
        /\ pollMs' = SlowMs
        /\ pollTimer' = IF restart THEN SlowMs ELSE pollTimer
        /\ timers' = IF restart THEN stopPolling(timers, pollTimer) + 1 ELSE timers
        /\ fetches' = (fetches - 1) + (IF nested THEN 1 ELSE 0)
        /\ startedFetch' = nested
        /\ isRefreshing' = FALSE
        /\ logged("fail", FALSE)
  /\ lastState' = failureKeeps(lastState)
  /\ pOp' = "fetchFail"
  /\ prevState' = lastState
  /\ UNCHANGED <<hidden, cmds, now, logging>>

\* visibilitychange, the page becomes hidden: stopPolling()
Hide ==
  /\ UNCHANGED <<wsVars, histVars, chatVars, roomVars>>
  /\ ~hidden
  /\ hidden' = TRUE
  /\ pollTimer' = 0
  /\ timers' = stopPolling(timers, pollTimer)
  /\ pOp' = "hide"
  /\ startedFetch' = FALSE
  /\ toasts' = {}
  /\ prevState' = lastState
  /\ UNCHANGED <<lastState, errCooldownUntil, pollMs, isRefreshing, fetches, badge, cmds, now,
                 errGap, lastErrToast, failRun, logging, statusLog, transToasts>>

\* visibilitychange, the page becomes visible: startPolling()
Show ==
  /\ UNCHANGED <<wsVars, histVars, chatVars, roomVars>>
  /\ hidden
  /\ hidden' = FALSE
  /\ IF startIdle(pollTimer)
       THEN /\ timers < MaxTimers
            /\ pollTimer' = pollMs
            /\ timers' = timers + 1
            /\ refreshStatus(isRefreshing, fetches)
       ELSE UNCHANGED <<pollTimer, timers, isRefreshing, fetches>> /\ startedFetch' = FALSE
  /\ pOp' = "show"
  /\ toasts' = {}
  /\ prevState' = lastState
  /\ UNCHANGED <<lastState, errCooldownUntil, pollMs, badge, cmds, now,
                 errGap, lastErrToast, failRun, logging, statusLog, transToasts>>

PendingCmds == cmds["connect"] + cmds["disconnect"] + cmds["reconnect"]

\* setMCPStatus (main.js 1565-1581): Connect is shown and enabled unless the badge is
\* connected or connecting; Disconnect and Reconnect are shown while it is connected
ButtonUsable(k) ==
  IF k = "connect" THEN badge \notin {"connected", "connecting"} ELSE badge = "connected"

\* onConnect / onDisconnect / onReconnect up to the await of the POST
CmdClick(k) ==
  /\ UNCHANGED <<wsVars, histVars, chatVars, roomVars>>
  /\ ~hidden
  /\ ButtonUsable(k)
  /\ PendingCmds < MaxCmds
  /\ cmds' = [cmds EXCEPT ![k] = @ + 1]
  /\ badge' = IF k = "disconnect" THEN badge ELSE "connecting"
  /\ pOp' = "cmdClick"
  /\ startedFetch' = FALSE
  /\ toasts' = {}
  /\ prevState' = lastState
  /\ UNCHANGED <<lastState, errCooldownUntil, pollTimer, timers, pollMs, isRefreshing,
                 fetches, hidden, now, errGap, lastErrToast, failRun, logging, statusLog, transToasts>>

\* the POST succeeded: rest of the try block, then finally refreshStatus()
CmdOk(k) ==
  /\ UNCHANGED <<wsVars, histVars, chatVars, roomVars>>
  /\ cmds[k] > 0
  /\ cmds' = [cmds EXCEPT ![k] = @ - 1]
  /\ badge' = IF k = "disconnect" THEN "disconnected" ELSE badge
  /\ toasts' = IF k = "reconnect" THEN {"reconnecting"} ELSE {}
  /\ cmdFinally(isRefreshing, fetches)
  /\ pOp' = "cmdOk"
  /\ prevState' = lastState
  /\ UNCHANGED <<lastState, errCooldownUntil, pollTimer, timers, pollMs, hidden, now,
                 errGap, lastErrToast, failRun, logging, statusLog, transToasts>>

\* catch blocks of onConnect, onDisconnect, onReconnect: UI().toast(`Gagal ...`)
\* is called whatever the poll-error cooldown (cooling) says; http() has notified
\* already when the answer was a non-2xx one
cmdToastCooled(non2xx, cooling) ==
  IF cooling THEN {} ELSE IF non2xx THEN {"httpError", "cmdError"} ELSE {"cmdError"}
cmdFailToasts(non2xx, cooling) ==
  IF non2xx THEN {"httpError", "cmdError"} ELSE {"cmdError"}

\* the POST failed: with a non-2xx answer (non2xx) http() notifies before it throws,
\* with a network error fetch() throws; catch block, then finally refreshStatus()
CmdFail(k, non2xx) ==
  /\ UNCHANGED <<wsVars, histVars, chatVars, roomVars>>
  /\ cmds[k] > 0
  /\ cmds' = [cmds EXCEPT ![k] = @ - 1]
  /\ badge' = "error"
  /\ toasts' = cmdFailToasts(non2xx, now < errCooldownUntil)
  /\ cmdFinally(isRefreshing, fetches)
  /\ pOp' = "cmdFail"
  /\ prevState' = lastState
  /\ UNCHANGED <<lastState, errCooldownUntil, pollTimer, timers, pollMs, hidden, now,
                 errGap, lastErrToast, failRun, logging, statusLog, transToasts>>

\* ------------------------------------------------------------------ chat submission
ChatCooldownMs == 10000

\* onUISubmit, catch branch, lines 561-566: the status set on the badge, from the
\* recorded status ("" when none is recorded)
chatFailError(last) == "error"
chatFailBadge(last) ==
  IF last = "disconnected" THEN "disconnected"
  ELSE IF last = "connecting" THEN "connecting"
  ELSE IF last # "null" THEN "error"
  ELSE "unknown"

\* ui:submit with a text or files: onUISubmit up to the await of the request
ChatSubmit ==
  /\ UNCHANGED <<wsVars, histVars, roomVars>>
  /\ chats < MaxChats
  /\ chats' = chats + 1
  /\ pOp' = "chatSubmit"
  /\ startedFetch' = FALSE
  /\ toasts' = {}
  /\ prevState' = lastState
  /\ UNCHANGED <<lastState, errCooldownUntil, pollTimer, timers, pollMs, isRefreshing,
                 fetches, badge, hidden, cmds, now, errGap, lastErrToast, failRun, logging,
                 statusLog, transToasts, toastCooldown>>

\* the backend answered: the toast cooldown is reset; own tells whether the sender
\* (sendChatJSON) showed the server's message itself
ChatOk(own) ==
  /\ UNCHANGED <<wsVars, histVars, roomVars>>
  /\ chats > 0
  /\ chats' = chats - 1
  /\ toastCooldown' = 0
  /\ pOp' = "chatOk"
  /\ startedFetch' = FALSE
  /\ toasts' = IF own THEN {"chatAnswer"} ELSE {}
  /\ prevState' = lastState
  /\ UNCHANGED <<lastState, errCooldownUntil, pollTimer, timers, pollMs, isRefreshing,
                 fetches, badge, hidden, cmds, now, errGap, lastErrToast, failRun, logging,
                 statusLog, transToasts>>

\* the request failed: catch branch of onUISubmit; own tells whether the sender
\* showed the server's message itself
ChatFail(own) ==
  /\ UNCHANGED <<wsVars, histVars, roomVars>>
  /\ chats > 0
  /\ chats' = chats - 1
  /\ LET canToast == now >= toastCooldown
     IN /\ toasts' = (IF own THEN {"chatAnswer"} ELSE {}) \cup
                     (IF canToast THEN {"chatError"} ELSE {})
        /\ toastCooldown' = IF canToast THEN now + ChatCooldownMs ELSE toastCooldown
  /\ badge' = chatFailBadge(lastState)
  /\ pOp' = "chatFail"
  /\ startedFetch' = FALSE
  /\ prevState' = lastState
  /\ UNCHANGED <<lastState, errCooldownUntil, pollTimer, timers, pollMs, isRefreshing,
                 fetches, hidden, cmds, now, errGap, lastErrToast, failRun, logging,
                 statusLog, transToasts>>

\* time passes
Tick ==
  /\ UNCHANGED <<wsVars, histVars, chatVars, roomVars>>
  /\ now < MaxTicks * TickMs
  /\ now' = now + TickMs
  /\ pOp' = "clock"
  /\ startedFetch' = FALSE
  /\ toasts' = {}
  /\ prevState' = lastState
  /\ UNCHANGED <<lastState, errCooldownUntil, pollTimer, timers, pollMs, isRefreshing,
                 fetches, badge, hidden, cmds, errGap, lastErrToast, failRun, logging, statusLog, transToasts>>

\* state after the script ran on a freshly loaded page (lines 295-300, 589-590):
\* the badge shows disconnected, startPolling() created the timer and issued a fetch
InitPollWith(log) ==
  /\ lastState = "null"
  /\ errCooldownUntil = 0
  /\ pollTimer = NormalMs
  /\ timers = 1
  /\ pollMs = NormalMs
  /\ isRefreshing = TRUE
  /\ fetches = 1
  /\ badge = "disconnected"
  /\ hidden = FALSE
  /\ cmds = [k \in Commands |-> 0]
  /\ now = 0
  /\ pOp = "init"
  /\ startedFetch = TRUE
  /\ toasts = {}
  /\ prevState = "null"
  /\ errGap = -1
  /\ lastErrToast = -1
  /\ failRun = NoRun
  /\ logging = log
  /\ statusLog = <<>>
  /\ transToasts = 0
  /\ chats = 0
  /\ toastCooldown = 0

\* ------------------------------------------------------------------ history log
\* the roles wsAppend stores entries with
Roles == {"user", "peer", "assistant"}

\* wsAppend calls saveHist with an entry of the given role; stored tells whether
\* localStorage.setItem succeeded (when it throws the catch leaves the log as it was)
SaveHist(role, ok) ==
  /\ UNCHANGED <<wsVars, pollVars, chatVars, roomVars>>
  /\ saves < MaxSaves
  /\ saves' = saves + 1
  /\ stamp' = stamp + 1
  /\ arr' = IF ok THEN saveHist(arr, [role |-> role, ts |-> stamp + 1]) ELSE arr
  /\ UNCHANGED <<histOn, hist>>

\* a log as n earlier saves left it
LogOf(n) == [i \in 1..n |-> [role |-> "peer", ts |-> i]]

HistWith(on) == arr = <<>> /\ stamp = 0 /\ saves = 0 /\ histOn = on /\ hist = <<>>

HistIdle == HistWith(FALSE)

\* ------------------------------------------------------------------ room client (ws_room.js)
\* the page as it loads: no socket; the Disconnect button is disabled or not (off) as
\* the markup has it
RoomWith(off) ==
  /\ roomWs = 0
  /\ roomSock = [s \in Slots |-> "free"]
  /\ btnConnectOff = FALSE
  /\ btnDisconnectOff = off
  /\ rOp = "init" /\ rOn = 0

RoomIdle == RoomWith(TRUE)

\* connect(), lines 42-52: ws = new WebSocket(url); whatever ws referred to before
\* is left as it is, with its handlers
connectNew(socks, s) == [socks EXCEPT ![s] = "connecting"]

\* click on btnConnect: connect(); filled tells whether both inputs trim to a
\* non-empty text
Connect(filled) ==
  /\ UNCHANGED <<wsVars, pollVars, histVars, chatVars>>
  /\ ~btnConnectOff
  /\ IF ~filled
       THEN /\ rOp' = "alert"
            /\ UNCHANGED <<roomWs, roomSock>>
       ELSE \E s \in Slots :
              /\ roomSock[s] \in {"free", "closed"}
              /\ roomSock' = connectNew(roomSock, s)
              /\ roomWs' = s
              /\ rOp' = "connect"
  /\ rOn' = 0
  /\ UNCHANGED <<btnConnectOff, btnDisconnectOff>>

\* ws.onopen, lines 54-61, of the socket in slot s
RoomOpen(s) ==
  /\ UNCHANGED <<wsVars, pollVars, histVars, chatVars>>
  /\ roomSock[s] = "connecting"
  /\ roomSock' = [roomSock EXCEPT ![s] = "open"]
  /\ btnConnectOff' = TRUE
  /\ btnDisconnectOff' = FALSE
  /\ rOp' = "open" /\ rOn' = 0
  /\ UNCHANGED roomWs

\* the server starts the closing handshake on the socket in slot s: CLOSING until
\* the close event is dispatched
RoomClosing(s) ==
  /\ UNCHANGED <<wsVars, pollVars, histVars, chatVars>>
  /\ roomSock[s] = "open"
  /\ roomSock' = [roomSock EXCEPT ![s] = "closing"]
  /\ rOp' = "closing" /\ rOn' = 0
  /\ UNCHANGED <<roomWs, btnConnectOff, btnDisconnectOff>>

\* ws.onclose, lines 94-102, of the socket in slot s (the connection failed, was
\* lost or was closed): the handler sets the module's ws to null
RoomClose(s) ==
  /\ UNCHANGED <<wsVars, pollVars, histVars, chatVars>>
  /\ roomSock[s] \in {"connecting", "open", "closing"}
  /\ roomSock' = [roomSock EXCEPT ![s] = "closed"]
  /\ btnConnectOff' = FALSE
  /\ btnDisconnectOff' = TRUE
  /\ roomWs' = 0
  /\ rOp' = "close" /\ rOn' = 0

\* click on btnDisconnect: disconnect(), lines 108-112
Disconnect ==
  /\ UNCHANGED <<wsVars, pollVars, histVars, chatVars>>
  /\ ~btnDisconnectOff
  /\ IF roomWs # 0
       THEN /\ roomSock' = [roomSock EXCEPT ![roomWs] =
                              IF @ \in {"connecting", "open"} THEN "closing" ELSE @]
            /\ rOn' = roomWs
       ELSE /\ UNCHANGED roomSock
            /\ rOn' = 0
  /\ rOp' = "disconnect"
  /\ UNCHANGED <<roomWs, btnConnectOff, btnDisconnectOff>>

\* submit of msgForm, lines 140-155, with a text that trims to blank or not
RoomSubmit(blank) ==
  /\ UNCHANGED <<wsVars, pollVars, histVars, chatVars>>
  /\ IF roomWs = 0 \/ roomSock[roomWs] # "open"
       THEN rOp' = "notConnected" /\ rOn' = 0
       ELSE IF blank
         THEN rOp' = "blank" /\ rOn' = 0
         ELSE rOp' = "send" /\ rOn' = roomWs
  /\ UNCHANGED <<roomWs, roomSock, btnConnectOff, btnDisconnectOff>>

NextRoom ==
  \/ \E filled \in BOOLEAN : Connect(filled)
  \/ \E s \in Slots : RoomOpen(s)
  \/ \E s \in Slots : RoomClosing(s)
  \/ \E s \in Slots : RoomClose(s)
  \/ Disconnect
  \/ \E blank \in BOOLEAN : RoomSubmit(blank)

\* the connection manager (joins, leaves, retries, edits of the form), with the poller
\* at rest; the chat traffic of a session is in SpecChat
Init == InitWS /\ InitPollWith(FALSE) /\ RoomIdle /\ HistIdle

Next == NextWS

Spec == Init /\ [][Next]_vars

\* a chat session: the form stays as it was filled in (room r, user u), frames arrive
\* and messages are submitted while the connection comes and goes
NextChat ==
  \/ JoinClick
  \/ ReconnectTimerFires
  \/ \E s \in Slots : OnOpen(s)
  \/ \E s \in Slots : OnError(s)
  \/ \E s \in Slots : ServerCloseStart(s)
  \/ \E s \in Slots : OnClose(s)
  \/ LeaveClick
  \/ LeaveResume
  \/ \E s \in Slots, d \in InFrames : OnMessage(s, d)
  \/ \E t \in TextInputs : Submit(t)

InitChat ==
  /\ InitWS
  /\ roomField = <<"r">> /\ userField = <<"u">>
  /\ InitPollWith(FALSE) /\ RoomIdle
  /\ HistIdle

SpecChat == InitChat /\ [][NextChat]_vars

\* a frame of a server that delivers its history frame first thing after the current
\* socket opened, and any other frame at any time
OnFrame(s, d) ==
  /\ d.type = <<"history">> => (lastOp = "open" /\ s = ws)
  /\ OnMessage(s, d)

\* the frames that carry chat messages
ChatFrames == {d \in InFrames : d.type \in {<<"history">>, <<"message">>}}

\* the stored history of a session in room r, joined by hand each time, while the
\* connection comes and goes
NextLog ==
  \/ JoinClick
  \/ \E s \in Slots : OnOpen(s)
  \/ \E s \in Slots : ServerCloseStart(s)
  \/ \E s \in Slots : OnClose(s)
  \/ \E s \in Slots, d \in ChatFrames : OnFrame(s, d)

InitLog ==
  /\ InitWS
  /\ roomField = <<"r">> /\ userField = <<"u">> /\ autoBox = FALSE
  /\ InitPollWith(FALSE) /\ RoomIdle
  /\ HistWith(TRUE)

SpecLog == InitLog /\ [][NextLog]_vars

\* polling alone: the timer, the fetch completions and the visibility changes
NextSeq ==
  \/ PollTick
  \/ \E s \in Responses : FetchOk(s)
  \/ FetchFail
  \/ Hide
  \/ Show

NextPoll ==
  \/ NextSeq
  \/ \E k \in Commands : CmdClick(k)
  \/ \E k \in Commands : CmdOk(k)
  \/ \E k \in Commands, non2xx \in BOOLEAN : CmdFail(k, non2xx)
  \/ Tick

\* polling and the commands, the clock standing still
NextCmd ==
  \/ NextSeq
  \/ \E k \in Commands : CmdClick(k)
  \/ \E k \in Commands : CmdOk(k)
  \/ \E k \in Commands, non2xx \in BOOLEAN : CmdFail(k, non2xx)

\* polling, the commands and chat submissions, the clock standing still
NextUI ==
  \/ NextCmd
  \/ ChatSubmit
  \/ \E own \in BOOLEAN : ChatOk(own)
  \/ \E own \in BOOLEAN : ChatFail(own)

\* the page before the room form is used
WSIdle ==
  /\ InitWS
  /\ roomField = <<>> /\ userField = <<>> /\ autoBox = FALSE

\* the status poller
InitPoll == WSIdle /\ InitPollWith(FALSE) /\ RoomIdle /\ HistIdle

SpecPoll == InitPoll /\ [][NextPoll]_vars

\* the MCP badge under polls, commands and chat submissions
SpecUI == InitPoll /\ [][NextUI]_vars

\* the status poller under the scheduling the browser guarantees: an active interval
\* timer keeps firing, and every request in flight settles (it resolves or rejects).
\* Clicks and visibility changes are up to the user.
SpecCmd ==
  /\ InitPoll
  /\ [][NextCmd]_vars
  /\ WF_vars(PollTick)
  /\ WF_vars((\E s \in Responses : FetchOk(s)) \/ FetchFail)
  /\ WF_vars(\E k \in Commands, non2xx \in BOOLEAN : CmdOk(k) \/ CmdFail(k, non2xx))

\* the first polls of a freshly loaded page, their outcomes recorded: no command is
\* issued and the clock stands still (the connected/disconnected notification depends
\* on neither)
InitSeq == WSIdle /\ InitPollWith(TRUE) /\ RoomIdle /\ HistIdle

SpecSeq == InitSeq /\ [][NextSeq]_vars

\* the room client of ws_room.js alone
InitRoom ==
  /\ WSIdle
  /\ InitPollWith(FALSE)
  /\ HistIdle
  /\ \E off \in BOOLEAN : RoomWith(off)

SpecRoom == InitRoom /\ [][NextRoom]_vars

\* the history log of one room: it is empty, one short of the cap or at the cap, and
\* entries are saved
InitHist ==
  /\ WSIdle
  /\ InitPollWith(FALSE) /\ RoomIdle
  /\ \E n \in {0, HistCap - 1, HistCap} : arr = LogOf(n) /\ stamp = n
  /\ saves = 0
  /\ histOn = FALSE /\ hist = <<>>

NextHist == \E role \in Roles, ok \in BOOLEAN : SaveHist(role, ok)

SpecHist == InitHist /\ [][NextHist]_vars

\* ------------------------------------------------------------------ claims, connection manager

\* C1: after an explicit leave no automatic reconnect attempt is made until the user
\* joins again: while a Leave is in effect (Leave clicked, Join not clicked since) the
\* reconnect timer never makes a connect attempt.  The runs in which the user ticks
\* the auto-reconnect box again after the Leave are left out of the statement.
C1_NoAutoReconnectAfterLeave ==
  (explicitLeft /\ ~toggledSinceLeave) => lastOp # "timerConnect"

\* the delays the specification lists: 1000, 2000, 4000, 8000, 16000, then 30000
ListedDelay(n) == IF n >= 5 THEN 30000 ELSE <<1000, 2000, 4000, 8000, 16000>>[n + 1]

\* C2: the retry scheduled when reconnectAttempt = n has a delay of exactly
\* min(30000, 1000 * 2^n) ms, and reconnectAttempt grows only by one and only in the
\* step in which the pending timer fires.
C2_BackoffDelay ==
  /\ [](reconnectTimer # 0 => reconnectTimer = ListedDelay(schedAttempt))
  /\ [][reconnectAttempt' > reconnectAttempt =>
          /\ reconnectAttempt' = reconnectAttempt + 1
          /\ reconnectTimer # 0 /\ reconnectTimer' = 0
          /\ lastOp' \in {"timerConnect", "timerInvalid"}]_vars

\* a retry is pending whose delay is the 30 s cap
C2_Witness == reconnectTimer = 30000 /\ schedAttempt >= 5

\* C3: right after a socket opened (its onopen ran) reconnectAttempt is 0, and
\* reconnectAttempt is never negative.
C3_AttemptResetOnOpen ==
  /\ lastOp = "open" => reconnectAttempt = 0
  /\ reconnectAttempt >= 0

\* a socket created by an automatic retry (so with reconnectAttempt >= 1) has opened
C3_Witness == lastOp = "open" /\ ws # 0 /\ sock[ws].by = "timer" /\ sock[ws].rs = "open"

\* C5: at most one socket is live (open or connecting with handlers attached), and
\* every socket other than the one ws refers to has lost its handlers and is closing.
C5_AtMostOneLiveSocket ==
  /\ Cardinality({ s \in Slots : Live(s) }) <= 1
  /\ \A s \in Slots : s # ws => ~sock[s].h /\ sock[s].rs \in {"free", "closing"}

\* a connect has just replaced a socket that was still open or connecting
C5_Witness ==
  /\ lastOp \in {"join", "timerConnect"}
  /\ Live(ws)
  /\ \E s \in Slots : s # ws /\ sock[s].rs = "closing"

\* ------------------------------------------------------------------ claims, status poller

\* C4: at most one status fetch is in flight, isRefreshing is true exactly while one
\* is (so a refresh called meanwhile issued none), and it is false right after a
\* fetch completed, successfully or not.
C4_SingleFetch ==
  /\ fetches <= 1
  /\ isRefreshing <=> fetches = 1
  /\ pOp \in {"fetchOk", "fetchFail"} => ~isRefreshing /\ fetches = 0

\* the timer or a command's finally block called refresh during a fetch: no new fetch
C4_Witness ==
  /\ pOp \in {"tick", "cmdOk", "cmdFail"}
  /\ isRefreshing /\ fetches = 1 /\ ~startedFetch

\* C6 as claimed: on a fresh page three polls that each report connected produce
\* exactly one connected/disconnected notification.
C6_OneToastOnEntry ==
  statusLog = <<"connected", "connected", "connected">> => transToasts = 1

\* C6 as amended: on a fresh page three polls that each report connected produce no
\* connected/disconnected notification (the first poll has no recorded status to
\* differ from, the next two report no change).
C6_NoToastOnFreshPage ==
  statusLog = <<"connected", "connected", "connected">> => transToasts = 0

C6_Witness == statusLog = <<"connected", "connected", "connected">> /\ pOp = "fetchOk"

\* C7 as claimed: on a fresh page the polls connected, error, connected produce
\* exactly two connected/disconnected notifications, the error being a reported error
\* state or a failed fetch.
C7_TwoToasts ==
  statusLog \in {<<"connected", "error", "connected">>, <<"connected", "fail", "connected">>}
    => transToasts = 2

\* C7 as amended: they produce exactly one such notification (on the re-entry into
\* connected) when the error is a reported error state, and none when it is a failed
\* fetch, which leaves the recorded status at connected.
C7_ToastsAfterError ==
  /\ statusLog = <<"connected", "error", "connected">> => transToasts = 1
  /\ statusLog = <<"connected", "fail", "connected">> => transToasts = 0

C7_Witness ==
  /\ statusLog = <<"connected", "fail", "connected">>
  /\ pOp = "fetchOk" /\ lastState = "connected" /\ badge = "connected"

\* C8: refresh emits a connected/disconnected notification only when the new status is
\* connected or disconnected and differs from the recorded one; a poll that reports
\* the recorded status again emits none.
C8_TransitionOnly ==
  "transition" \in toasts =>
     /\ pOp = "fetchOk"
     /\ lastState \in {"connected", "disconnected"}
     /\ prevState # lastState

\* a poll found the status changed from connected to disconnected and notified
C8_Witness ==
  /\ pOp = "fetchOk" /\ "transition" \in toasts
  /\ prevState = "connected" /\ lastState = "disconnected"

\* C9: two poll-failure notifications are at least 15000 ms apart, and a run of
\* consecutive failed polls spanning less than 15 s emitted at most one.
C9_ErrorCooldown ==
  /\ errGap = -1 \/ errGap >= CooldownMs
  /\ (pOp = "fetchFail" /\ now - failRun.start < CooldownMs) => failRun.toasts <= 1

\* five consecutive failed polls within 15 s, one notification
C9_Witness ==
  /\ pOp = "fetchFail" /\ failRun.n = 5 /\ now - failRun.start < CooldownMs
  /\ failRun.toasts = 1 /\ toasts = {}

\* C10: while the page is hidden there is no poll timer and no handler starts a
\* status fetch, and the timer exists again once the page is shown.
C10_NoPollingWhileHidden ==
  /\ hidden => pollTimer = 0 /\ ~startedFetch
  /\ pOp = "show" => pollTimer # 0

\* ------------------------------------------------------------------ claims, room form

\* C11: when the connection was lost (the socket ws refers to is closed, not by a
\* Leave) and autoReconnect is true, the automatic retry made when the timer fires
\* connects, and to the roomId and userId held in wsState, those of the lost
\* connection, whatever the room and user fields contain by then.
C11_RetrySameRoom ==
  [][(/\ lastOp' \in {"timerConnect", "timerInvalid"}
      /\ ws # 0 /\ sock[ws].rs = "closed"
      /\ autoReconnect /\ ~explicitLeft)
       => (/\ lastOp' = "timerConnect"
           /\ roomId' = roomId /\ userId' = userId)]_vars

\* C12: retries never stop on their own: a closure that finds autoReconnect true
\* leaves a retry pending, and while autoReconnect stays true and no Leave is clicked
\* a pending retry ends only by making a connect attempt (a new socket), whose own
\* closure schedules the next one.
C12_RetriesNeverStop ==
  /\ []((lastOp = "close" /\ autoReconnect) => reconnectTimer # 0)
  /\ [][(/\ reconnectTimer # 0 /\ reconnectTimer' = 0
         /\ autoReconnect /\ autoReconnect' /\ ~explicitLeft')
          => (lastOp' = "timerConnect" /\ ws' # 0 /\ sock'[ws'].rs = "connecting")]_vars

\* a text that is empty after trimming
Blank(s) == \A i \in 1..Len(s) : s[i] = " "

\* the notice of a failed validation
InvalidNotice ==
  [role |-> "assistant", text |-> <<"Room ID dan User ID wajib diisi.">>,
   who |-> <<"Assistant">>, key |-> roomId]

\* C13: a connect (by Join or by the retry timer) that finds the room or the user
\* field empty after trimming opens no socket and shows one notice; the socket,
\* autoReconnect, wsState.roomId/userId and what localStorage holds stay as they were,
\* and so does reconnectAttempt (the increment the timer callback makes before it
\* calls connect aside).
C13_InvalidConnect ==
  [][(/\ lastOp' \in {"join", "joinInvalid", "timerConnect", "timerInvalid"}
      /\ (Blank(roomField) \/ Blank(userField)))
       => (/\ lastOp' \in {"joinInvalid", "timerInvalid"}
           /\ UNCHANGED <<ws, sock, autoReconnect, roomId, userId, stored>>
           /\ reconnectAttempt' =
                reconnectAttempt + (IF lastOp' = "timerInvalid" THEN 1 ELSE 0)
           /\ out' = <<InvalidNotice>>)]_vars

\* Join was clicked with a room of blanks while a socket was connecting: it stayed
C13_Witness ==
  /\ lastOp = "joinInvalid" /\ roomField = <<" ">> /\ userField = <<"u">>
  /\ ws # 0 /\ Live(ws)
  /\ out = <<InvalidNotice>>

\* the bubble of a system line with the given text
SystemLine(t) == [role |-> "assistant", text |-> t, who |-> <<"Assistant">>, key |-> roomId]

\* C14: a submitted text (not empty after trimming) with no open socket sends nothing
\* and renders no self bubble, only the "Not connected" notice; with an open socket
\* it sends exactly one {message: text} frame and renders exactly one self bubble;
\* in both cases the connection state is left unchanged.
C14_SendNeedsOpenSocket ==
  /\ []((evt.kind = "submit" /\ ~Blank(evt.raw)) =>
          IF ws # 0 /\ sock[ws].rs = "open"
            THEN /\ sent = <<[key |-> "message", value |-> val(evt.raw)]>>
                 /\ out = <<[role |-> "user", text |-> val(evt.raw), who |-> userId,
                             key |-> roomId]>>
            ELSE /\ sent = <<>>
                 /\ out = <<SystemLine(<<"Not connected">>)>>)
  /\ [][evt'.kind = "submit" =>
          UNCHANGED <<ws, sock, roomId, userId, reconnectAttempt, autoReconnect,
                      reconnectTimer, uiConnected, stored>>]_vars

\* a message was submitted while the UI showed connected and the socket was closing
C14_Witness ==
  /\ lastOp = "submitOffline" /\ evt.raw = <<"hi">>
  /\ uiConnected /\ ws # 0 /\ sock[ws].rs = "closing"

\* C15: an inbound frame of type message renders exactly one peer bubble when its
\* from differs from wsState.userId and nothing when it equals it (the sender's own
\* message is shown by the submit handler only).
C15_PeerBubbleOnly ==
  (lastOp = "message" /\ evt.valid /\ evt.type = <<"message">>) =>
     IF evt.from = userId
       THEN out = <<>>
       ELSE out = <<[role |-> "peer", text |-> evt.content, who |-> evt.from,
                     key |-> roomId]>>

\* the server delivered a message frame whose from is the local user: nothing rendered
C15_Witness ==
  /\ lastOp = "message" /\ evt.type = <<"message">>
  /\ evt.from = <<"u">> /\ userId = <<"u">> /\ out = <<>>

\* C16: an inbound frame that is not valid JSON is rendered verbatim as exactly one
\* system line, and its handling leaves the socket, reconnectAttempt, autoReconnect
\* and the reconnect timer as they were.
C16_NonJsonFrame ==
  /\ []((lastOp = "message" /\ ~evt.valid) => out = <<SystemLine(evt.raw)>>)
  /\ [][(lastOp' = "message" /\ ~evt'.valid) =>
          UNCHANGED <<ws, sock, reconnectAttempt, autoReconnect, reconnectTimer,
                      schedAttempt>>]_vars

\* the text oops arrived on the open socket
C16_Witness ==
  /\ lastOp = "message" /\ evt.raw = <<"oops">> /\ ~evt.valid
  /\ ws # 0 /\ sock[ws].rs = "open" /\ Len(out) = 1

\* C20: once an explicit leave has completed (Leave clicked, its handler finished, no
\* Join clicked since, the auto-reconnect box not touched since) the socket ws refers
\* to is neither open nor connecting, whatever state it was in when Leave was clicked.
C20_NoSocketAfterLeave ==
  (explicitLeft /\ ~toggledSinceLeave /\ leaveWaits = 0)
    => (ws # 0 => sock[ws].rs \notin {"connecting", "open"})

\* C21: a reconnect timer is pending only while autoReconnect is true and the socket
\* ws refers to is neither open nor connecting (it is cancelled when the box is
\* unticked and when a join succeeds).
C21_TimerOnlyWhileNeeded ==
  reconnectTimer # 0 =>
    /\ autoReconnect
    /\ (ws # 0 => sock[ws].rs \notin {"connecting", "open"})

\* ------------------------------------------------------------------ claims, polling control

\* C17: at most one poll timer is active, and it is the one pollTimer holds; a start
\* (the page is shown) while a timer is active creates no timer and issues no fetch;
\* a start with no active timer creates one timer and calls refresh once, which
\* issues one fetch unless one is in flight.
C17_StartIdempotent ==
  /\ [](timers <= 1 /\ (timers = 1 <=> pollTimer # 0))
  /\ [][pOp' = "show" =>
          IF pollTimer # 0
            THEN UNCHANGED <<pollTimer, timers, fetches, isRefreshing>>
            ELSE /\ timers' = 1 /\ pollTimer' = pollMs
                 /\ fetches' = fetches + (IF isRefreshing THEN 0 ELSE 1)]_vars

\* the page was shown while a timer was active and no fetch in flight: none was issued
C17_Witness ==
  /\ pOp = "show" /\ timers = 1 /\ pollTimer # 0
  /\ ~isRefreshing /\ fetches = 0 /\ ~startedFetch

\* C18 as claimed: after a command resolved (succeeded or failed) a status fetch
\* begins, in the resolving handler or later, also when a poll was in flight at that
\* moment.
C18_FetchAfterCommand == (pOp \in {"cmdOk", "cmdFail"}) ~> startedFetch

\* C18 as amended: the handler in which a command resolves calls refresh, which begins
\* a status fetch exactly when no poll is in flight (so one is in flight afterwards
\* either way); after that a fetch begins again, by the timer, unless the page has
\* been hidden and no timer is left.
C18_RefreshAfterCommand ==
  /\ [][pOp' \in {"cmdOk", "cmdFail"} =>
          /\ startedFetch' <=> ~isRefreshing
          /\ isRefreshing' /\ fetches' = 1]_vars
  /\ (pOp \in {"cmdOk", "cmdFail"}) ~> (startedFetch \/ (hidden /\ timers = 0))

\* a disconnect command succeeded while a poll was in flight: no fetch was begun
C18_Witness ==
  /\ pOp = "cmdOk" /\ badge = "disconnected" /\ ~hidden
  /\ ~startedFetch /\ isRefreshing /\ fetches = 1

\* ------------------------------------------------------------------ claims, history log

\* C19: the history log of a room never holds more than 500 entries; its entries are
\* in the order they were appended; and a save that changes a log of 500 entries
\* drops the oldest one and appends the new one at the end.
C19_HistoryCapped ==
  /\ [](Len(arr) <= HistCap)
  /\ [](\A i \in 1..(Len(arr) - 1) : arr[i].ts < arr[i + 1].ts)
  /\ [][arr' # arr =>
          /\ arr'[Len(arr')].ts = stamp'
          /\ arr' = (IF Len(arr) = HistCap THEN Tail(arr) ELSE arr) \o <<arr'[Len(arr')]>>]_vars

\* the log is full, its oldest entries were dropped and the newest is the last
C19_Witness ==
  /\ Len(arr) = HistCap /\ arr[1].ts = 3 /\ arr[HistCap].ts = HistCap + 2
  /\ stamp = HistCap + 2

\* C22 as claimed: the recorded status starts as disconnected and, after every
\* completed refresh and every command, equals the status the badge shows.
C22_RecordedIsBadge ==
  /\ pOp = "init" => lastState = "disconnected"
  /\ pOp \in {"fetchOk", "fetchFail", "cmdOk", "cmdFail"} => lastState = badge

\* C22 as amended: the recorded status starts as null and only a successful refresh
\* assigns it, to the status it renders on the badge; a failed refresh and the
\* commands change the badge and leave the recorded status as it was.
C22_RecordedBySuccess ==
  /\ [](pOp = "init" => lastState = "null")
  /\ [](pOp = "fetchOk" => lastState = badge /\ lastState \in Statuses)
  /\ [][pOp' # "fetchOk" => lastState' = lastState]_vars

\* a poll failed after one that reported connected: the badge shows error, the
\* recorded status is still connected
C22_Witness == pOp = "fetchFail" /\ badge = "error" /\ lastState = "connected"

Dictated ==
  IF failRun.n > 0 THEN 4000
  ELSE IF lastState = "connecting" THEN 500
  ELSE 1500

\* C24: pollMs is the interval the refresh completed last dictates, an active poll
\* timer has that period, and a completed refresh replaces the timer exactly when
\* it changes pollMs.
C24_TimerPeriod ==
  /\ [](pollMs = Dictated)
  /\ [](pollTimer # 0 => pollTimer = Dictated)
  /\ [][pOp' \in {"fetchOk", "fetchFail"} =>
          ((pollTimer' # pollTimer) <=> (pollMs' # pollMs))]_vars

\* a poll reported connecting after a failed one: the timer went from 4000 to 500 ms
C24_Witness ==
  /\ pOp = "fetchOk" /\ lastState = "connecting" /\ prevState = "connected"
  /\ pollTimer = 500 /\ timers = 1 /\ lastErrToast # -1

\* C25: the click of a command sets the badge before its request resolves, to
\* connecting for connect and reconnect and to disconnected for disconnect.
C25_OptimisticBadge ==
  [][pOp' = "cmdClick" =>
       \A k \in Commands :
         cmds'[k] > cmds[k] =>
           badge' = IF k = "disconnect" THEN "disconnected" ELSE "connecting"]_vars

\* C26: a failed command always emits its error notification, the poll-error
\* cooldown notwithstanding, and no step of a command handler changes the polling
\* interval, the poll timer or the error cooldown.
C26_CommandFailureNotified ==
  /\ [](pOp = "cmdFail" => "cmdError" \in toasts)
  /\ [][pOp' \in {"cmdClick", "cmdOk", "cmdFail"} =>
          /\ pollMs' = pollMs
          /\ pollTimer' = pollTimer
          /\ timers' = timers
          /\ errCooldownUntil' = errCooldownUntil]_vars

\* a command failed inside the cooldown window of a failed poll and was notified
C26_Witness ==
  /\ pOp = "cmdFail" /\ now < errCooldownUntil /\ "cmdError" \in toasts
  /\ pollMs = 4000 /\ pollTimer = 4000

\* C27: after a join, a toggle of the checkbox and an explicit leave the preference
\* kept in local storage equals wsState.autoReconnect, so it is false after a leave.
C27_PreferencePersisted ==
  /\ lastOp \in {"join", "toggle", "leaveClick", "leaveDone"} => stored.auto = autoReconnect
  /\ lastOp \in {"leaveClick", "leaveDone"} => stored.auto = FALSE

\* C28: between handler runs the room shows Connected exactly when the current
\* socket of the manager is open.
C28_ConnectedIffOpen ==
  uiConnected <=> (ws # 0 /\ sock[ws].rs = "open")

\* C29: replaying the cached history stores nothing (onopen stores its own system
\* line only), and the handling of the server's history frame stores no message
\* that the log holds already.
C29_StoredOnce ==
  /\ [][lastOp' = "open" => Len(hist') = Len(hist) + 1 /\ hist'[Len(hist')].role = "assistant"]_vars
  /\ [][(lastOp' = "message" /\ evt'.type = <<"history">>) =>
          \A i \in 1..Len(out') :
            out'[i].role \in {"user", "peer"} =>
              \A j \in 1..Len(hist) : hist[j] # out'[i]]_vars

\* C30: the ws reference of the room client is non-null exactly when a socket that
\* connect() created is open or connecting, and every such socket is the one the
\* reference points to.
C30_ReferenceIsLiveSocket ==
  /\ roomWs # 0 <=> \E s \in Slots : roomSock[s] \in {"connecting", "open"}
  /\ \A s \in Slots : roomSock[s] \in {"connecting", "open"} => roomWs = s

====
